---- MODULE Spec2Model ----
(***************************************************************************)
(* MockNatsClient (src/lib/MockNatsClient.js): an in-process mock of a     *)
(* NATS client.  The model keeps the subscription objects in a heap (rec)  *)
(* and the registry this.subs as a sequence of references into it, so that *)
(* a publish in progress keeps the objects it selected after they have     *)
(* left the registry.  JavaScript runs to completion: a publish is a frame *)
(* on the call stack, handlers run inside it and may call the client       *)
(* again; timers and emitted events run only when the stack is empty.      *)
(***************************************************************************)
EXTENDS Integers, Sequences, FiniteSets, TLC

\* ---------------------------------------------------------------- bounds
\* A run is bounded by a budget of calls.  Six budgets are explored, each
\* generous in one part of the client: delivery, timeouts, both, connection,
\* requests, and a single request.
\* subs: subscribe calls; received: largest received count a subscription
\* reaches; timers: timeout calls; connects, closes: connect and close calls;
\* requests: requestOne calls.
DeliverySubs == 3
DeliveryReceived == 1
DeliveryTimers == 0
DeliveryConnects == 0
DeliveryCloses == 1
DeliveryRequests == 0
TimeoutSubs == 1
TimeoutReceived == 2
TimeoutTimers == 2
TimeoutConnects == 0
TimeoutCloses == 1
TimeoutRequests == 0
MixedSubs == 2
MixedReceived == 1
MixedTimers == 1
MixedConnects == 0
MixedCloses == 1
MixedRequests == 0
LifecycleSubs == 1
LifecycleReceived == 1
LifecycleTimers == 0
LifecycleConnects == 2
LifecycleCloses == 2
LifecycleRequests == 0
ReplySubs == 1
ReplyReceived == 1
ReplyTimers == 0
ReplyConnects == 0
ReplyCloses == 0
ReplyRequests == 2
EchoSubs == 1
EchoReceived == 1
EchoTimers == 0
EchoConnects == 0
EchoCloses == 0
EchoRequests == 1
\* largest number of segments of a pattern, where matching is explored; a
\* subject has up to one segment more
MatchSegments == 3
\* largest expected count passed to timeout
MaxExpected == 2
\* nesting depth of publish (a handler publishing again)
MaxDepth == 2

DeliveryBudget ==
    [subs |-> DeliverySubs, received |-> DeliveryReceived, timers |-> DeliveryTimers,
     connects |-> DeliveryConnects, closes |-> DeliveryCloses,
     requests |-> DeliveryRequests]
TimeoutBudget ==
    [subs |-> TimeoutSubs, received |-> TimeoutReceived, timers |-> TimeoutTimers,
     connects |-> TimeoutConnects, closes |-> TimeoutCloses,
     requests |-> TimeoutRequests]
MixedBudget ==
    [subs |-> MixedSubs, received |-> MixedReceived, timers |-> MixedTimers,
     connects |-> MixedConnects, closes |-> MixedCloses,
     requests |-> MixedRequests]
LifecycleBudget ==
    [subs |-> LifecycleSubs, received |-> LifecycleReceived, timers |-> LifecycleTimers,
     connects |-> LifecycleConnects, closes |-> LifecycleCloses,
     requests |-> LifecycleRequests]
ReplyBudget ==
    [subs |-> ReplySubs, received |-> ReplyReceived, timers |-> ReplyTimers,
     connects |-> ReplyConnects, closes |-> ReplyCloses,
     requests |-> ReplyRequests]
EchoBudget ==
    [subs |-> EchoSubs, received |-> EchoReceived, timers |-> EchoTimers,
     connects |-> EchoConnects, closes |-> EchoCloses,
     requests |-> EchoRequests]

Budgets ==
    {DeliveryBudget, TimeoutBudget, MixedBudget, LifecycleBudget, ReplyBudget,
     EchoBudget}
\* the budgets under which the eventual properties are checked
FairBudgets == {TimeoutBudget, LifecycleBudget, EchoBudget}

\* ---------------------------------------------------------------- values
\* JavaScript's undefined / null and the booleans, as values of one sort
Undefined == "undefined"
JsTrue == "true"
JsFalse == "false"
\* argument values of subscribe: a handler function, undefined, an options object
Fn == [type |-> "function", queue |-> Undefined]
NoArg == [type |-> "undefined", queue |-> Undefined]
Options(q) == [type |-> "object", queue |-> q]
\* a message: the payload a caller publishes
Payload == [type |-> "string", queue |-> Undefined]

\* subjects are sequences of dot-separated segments
Subjects == {<<"a">>, <<"b">>}
Patterns == {<<"a">>, <<"*">>}
\* queue-group names: "7" is a canonical array index as an object key
Queues == {"q", "7"}

\* ---------------------------------------------------------------- state
VARIABLES
    budget,           \* the bounds of this run (never changes)
    rec,              \* heap of subscription objects, by allocation order
    subs,             \* this.subs: references (indices of rec), in registry order
    connected,        \* this.connected
    timers,           \* every timer made by timeout(): its state and what it observed
    connectCalls,     \* calls of connect() so far
    connectPending,   \* setTimeout callbacks of connect() not yet run
    connectEmitted,   \* emissions of "connect"
    closeCalls,       \* calls of close() so far
    tickPending,      \* process.nextTick callbacks of close() not yet run
    disconnectEmitted,\* emissions of "disconnect"
    stack,            \* publish calls in progress, innermost last
    unsubscribed,     \* history: the objects unsubscribe has removed
    wiped,            \* history: close was called and subscribe has not been since
    requests          \* history: every requestOne call and how it ended

vars == <<budget, rec, subs, connected, timers, connectCalls, connectPending,
          connectEmitted, closeCalls, tickPending, disconnectEmitted, stack,
          unsubscribed, wiped, requests>>

\* ---------------------------------------------------------------- helpers
Range(s) == {s[i] : i \in 1..Len(s)}

RECURSIVE SeqFilter(_, _)
SeqFilter(s, S) ==
    IF s = <<>> THEN <<>>
    ELSE IF Head(s) \in S THEN <<Head(s)>> \o SeqFilter(Tail(s), S)
    ELSE SeqFilter(Tail(s), S)

\* utils.matchSubject(subject, pattern): segment-wise match, "*" one segment,
\* a final ">" one or more trailing segments
RECURSIVE matchSubject(_, _)
matchSubject(subject, pattern) ==
    IF pattern = <<>> THEN subject = <<>>
    ELSE IF Head(pattern) = ">" THEN Len(pattern) = 1 /\ Len(subject) >= 1
    ELSE IF subject = <<>> THEN FALSE
    ELSE /\ Head(pattern) \in {"*", Head(subject)}
         /\ matchSubject(Tail(subject), Tail(pattern))

\* the empty string counts as a value
Truthy_definedOnly(v) == v # Undefined

\* a JavaScript value used as a condition
Truthy(v) == v \notin {Undefined, ""}

\* the order of an object's own keys: canonical array indices first, in
\* ascending numeric order, then the other string keys in insertion order
ArrayIndex(k) ==
    CASE k = "7" -> 7
      [] OTHER -> -1

\* uuid.v4() is modelled by the serial number of the call: never repeated
uuidv4(n) == n

\* the property key _findSubscribesBySubject files a subscription under:
\* sub.queue || uuid.v4()
QueueKey(o) ==
    IF Truthy(rec[o].queue) THEN [queue |-> rec[o].queue, uuid |-> 0]
    ELSE [queue |-> "", uuid |-> uuidv4(o)]

\* an existing key is deleted and added again: it moves to the end
PutKey_moved(obj, key, val) ==
    Append(SeqFilter(obj, {p \in Range(obj) : p[1] # key}), <<key, val>>)

\* onePerQueue[key] = sub on an object kept as <<key, value>> pairs in
\* insertion order: an existing key keeps its place and takes the new value
PutKey(obj, key, val) ==
    IF \E i \in 1..Len(obj) : obj[i][1] = key
    THEN [i \in 1..Len(obj) |-> IF obj[i][1] = key THEN <<key, val>> ELSE obj[i]]
    ELSE Append(obj, <<key, val>>)

RECURSIVE onePerQueue(_, _)
onePerQueue(matches, obj) ==
    IF matches = <<>> THEN obj
    ELSE onePerQueue(Tail(matches), PutKey(obj, QueueKey(Head(matches)), Head(matches)))

IsIndexKey(key) == key.uuid = 0 /\ ArrayIndex(key.queue) >= 0

\* the pairs with index keys, in ascending numeric order
RECURSIVE SortIndexKeys(_)
SortIndexKeys(S) ==
    IF S = {} THEN <<>>
    ELSE LET m == CHOOSE p \in S :
                    \A r \in S : ArrayIndex(p[1].queue) <= ArrayIndex(r[1].queue)
         IN <<m>> \o SortIndexKeys(S \ {m})

ObjectValues(obj) ==
    LET idx == {obj[i] : i \in {j \in 1..Len(obj) : IsIndexKey(obj[j][1])}}
        ordered == SortIndexKeys(idx) \o SeqFilter(obj, Range(obj) \ idx)
    IN [i \in 1..Len(ordered) |-> ordered[i][2]]

\* the arguments of matchSubject are exchanged
Matches_exchanged(subject) ==
    SeqFilter(subs, {o \in Range(subs) : matchSubject(rec[o].subject, subject)})

\* this.subs.filter(sub => utils.matchSubject(subject, sub.subject))
Matches(subject) ==
    SeqFilter(subs, {o \in Range(subs) : matchSubject(subject, rec[o].subject)})

\* every match is returned, no reduction per queue group
findSubscribesBySubject_all(subject) == Matches(subject)

_findSubscribesBySubject(subject) ==
    ObjectValues(onePerQueue(Matches(subject), <<>>))

\* this.subs.find(sub => sub.sid === sid): the first such object, 0 for undefined
_findSubscribeBySid(sid) ==
    IF \E i \in 1..Len(subs) : rec[subs[i]].sid = sid
    THEN subs[CHOOSE i \in 1..Len(subs) :
                /\ rec[subs[i]].sid = sid
                /\ \A j \in 1..(i - 1) : rec[subs[j]].sid # sid]
    ELSE 0

\* subscribe's argument shifting: (subject, handler) or (subject, options, handler)
parsedCb(opts, cb) == IF opts.type = "function" THEN opts ELSE cb
parsedOpts(opts) ==
    IF opts.type = "function" \/ opts.type = "undefined" THEN Options(Undefined) ELSE opts

\* the (opts, cb) argument pairs a caller passes to subscribe
SubscribeArgs ==
    {<<Fn, NoArg>>, <<NoArg, Fn>>}
        \cup {<<Options(q), Fn>> : q \in Queues \cup {Undefined}}

\* the ids a caller passes: every id issued so far and one never issued
SidArgs == 1..(Len(rec) + Len(requests) + 1)

\* code runs either from the top level of a tick or inside a handler
InHandler ==
    /\ stack # <<>>
    /\ stack[Len(stack)].inHandler
    /\ ~stack[Len(stack)].threw
CanCall == stack = <<>> \/ InHandler

\* ---------------------------------------------------------------- initial state
Init ==
    /\ budget \in Budgets
    /\ rec = <<>>
    /\ subs = <<>>
    /\ connected = Undefined
    /\ timers = <<>>
    /\ connectCalls = 0
    /\ connectPending = 0
    /\ connectEmitted = 0
    /\ closeCalls = 0
    /\ tickPending = 0
    /\ disconnectEmitted = 0
    /\ stack = <<>>
    /\ unsubscribed = {}
    /\ wiped = FALSE
    /\ requests = <<>>

\* ---------------------------------------------------------------- operations
\* connected is left for the deferred callback to set
connect_deferred ==
    /\ CanCall
    /\ connectCalls < budget.connects
    /\ connectPending' = connectPending + 1
    /\ connectCalls' = connectCalls + 1
    /\ UNCHANGED <<unsubscribed, wiped, budget, requests, rec, subs, connected, timers, connectEmitted,
                   closeCalls, tickPending, disconnectEmitted, stack>>

\* the event is emitted within the call
connect_emitsInline ==
    /\ CanCall
    /\ connectCalls < budget.connects
    /\ connected' = JsTrue
    /\ connectEmitted' = connectEmitted + 1
    /\ connectCalls' = connectCalls + 1
    /\ UNCHANGED <<unsubscribed, wiped, budget, requests, rec, subs, timers, connectPending,
                   closeCalls, tickPending, disconnectEmitted, stack>>

connect ==
    /\ CanCall
    /\ connectCalls < budget.connects
    /\ connected' = JsTrue
    /\ connectPending' = connectPending + 1
    /\ connectCalls' = connectCalls + 1
    /\ UNCHANGED <<unsubscribed, wiped, budget, requests, rec, subs, timers, connectEmitted, closeCalls, tickPending,
                   disconnectEmitted, stack>>

\* the setTimeout callback of connect
EmitConnect ==
    /\ stack = <<>>
    /\ tickPending = 0
    /\ connectPending > 0
    /\ connectPending' = connectPending - 1
    /\ connectEmitted' = connectEmitted + 1
    /\ UNCHANGED <<unsubscribed, wiped, budget, requests, rec, subs, connected, timers, connectCalls, closeCalls,
                   tickPending, disconnectEmitted, stack>>

\* the registry is left as it is
close_flagOnly ==
    /\ CanCall
    /\ closeCalls < budget.closes
    /\ connected' = JsFalse
    /\ tickPending' = tickPending + 1
    /\ closeCalls' = closeCalls + 1
    /\ wiped' = TRUE
    /\ UNCHANGED <<unsubscribed, budget, requests, rec, subs, timers, connectCalls, connectPending,
                   connectEmitted, disconnectEmitted, stack>>

\* the event is emitted within the call
close_emitsInline ==
    /\ CanCall
    /\ closeCalls < budget.closes
    /\ subs' = <<>>
    /\ connected' = JsFalse
    /\ disconnectEmitted' = disconnectEmitted + 1
    /\ closeCalls' = closeCalls + 1
    /\ wiped' = TRUE
    /\ UNCHANGED <<unsubscribed, budget, requests, rec, timers, connectCalls, connectPending,
                   connectEmitted, tickPending, stack>>

\* the pending timers are cleared with the registry
close_clearsTimers ==
    /\ CanCall
    /\ closeCalls < budget.closes
    /\ subs' = <<>>
    /\ timers' = [t \in 1..Len(timers) |->
                    [timers[t] EXCEPT !.state = IF @ = "pending" THEN "cleared" ELSE @]]
    /\ connected' = JsFalse
    /\ tickPending' = tickPending + 1
    /\ closeCalls' = closeCalls + 1
    /\ wiped' = TRUE
    /\ UNCHANGED <<unsubscribed, budget, requests, rec, connectCalls, connectPending, connectEmitted,
                   disconnectEmitted, stack>>

close ==
    /\ CanCall
    /\ closeCalls < budget.closes
    /\ subs' = <<>>
    /\ connected' = JsFalse
    /\ tickPending' = tickPending + 1
    /\ closeCalls' = closeCalls + 1
    /\ wiped' = TRUE
    /\ UNCHANGED <<unsubscribed, budget, requests, rec, timers, connectCalls, connectPending, connectEmitted,
                   disconnectEmitted, stack>>

\* the process.nextTick callback of close: runs once the current tick has
\* ended, before any timer
EmitDisconnect ==
    /\ stack = <<>>
    /\ tickPending > 0
    /\ tickPending' = tickPending - 1
    /\ disconnectEmitted' = disconnectEmitted + 1
    /\ UNCHANGED <<unsubscribed, wiped, budget, requests, rec, subs, connected, timers, connectCalls, connectPending,
                   connectEmitted, closeCalls, stack>>

\* the id is taken from the length of the registry
NewSub_sidFromLength(subject, opts, cb, sid) ==
    [subject |-> subject, queue |-> parsedOpts(opts).queue, cb |-> parsedCb(opts, cb),
     sid |-> Len(subs) + 1, received |-> 0, expected |-> 0, timeout |-> 0]

NewSub(subject, opts, cb, sid) ==
    [subject |-> subject, queue |-> parsedOpts(opts).queue, cb |-> parsedCb(opts, cb),
     sid |-> sid, received |-> 0,
     \* expected and timeout are unset: 0 stands for undefined
     expected |-> 0, timeout |-> 0]

subscribe(subject, opts, cb) ==
    /\ CanCall
    /\ Len(rec) < budget.subs
    /\ LET sid == uuidv4(Len(rec) + Len(requests) + 1) IN
        /\ rec' = Append(rec, NewSub(subject, opts, cb, sid))
        /\ subs' = Append(subs, Len(rec) + 1)
    /\ wiped' = FALSE
    /\ UNCHANGED <<unsubscribed, budget, requests, connected, timers, connectCalls, connectPending, connectEmitted,
                   closeCalls, tickPending, disconnectEmitted, stack>>

\* this.subs.splice(this.subs.indexOf(subToRemove), 1)
\* indexOf of a value the array does not hold is -1, and splice(-1, 1)
\* removes the last element
IndexOf_last(s, o) == Len(s)

IndexOf(s, o) ==
    CHOOSE i \in 1..Len(s) : s[i] = o /\ \A j \in 1..(i - 1) : s[j] # o
Splice(s, i) == SubSeq(s, 1, i - 1) \o SubSeq(s, i + 1, Len(s))

\* the removal is made whether or not the id was found
unsubscribe_unguarded(sid) ==
    /\ CanCall
    /\ LET subToRemove == _findSubscribeBySid(sid) IN
        IF subToRemove # 0
        THEN /\ subs' = Splice(subs, IndexOf(subs, subToRemove))
             /\ unsubscribed' = unsubscribed \cup {subToRemove}
        ELSE /\ subs' = SubSeq(subs, 1, Len(subs) - 1)
             /\ UNCHANGED unsubscribed
    /\ UNCHANGED <<wiped, budget, requests, rec, connected, timers, connectCalls, connectPending, connectEmitted,
                   closeCalls, tickPending, disconnectEmitted, stack>>

unsubscribe(sid) ==
    /\ CanCall
    /\ LET subToRemove == _findSubscribeBySid(sid) IN
        IF subToRemove # 0
        THEN /\ subs' = Splice(subs, IndexOf(subs, subToRemove))
             /\ unsubscribed' = unsubscribed \cup {subToRemove}
        ELSE UNCHANGED <<subs, unsubscribed>>
    /\ UNCHANGED <<wiped, budget, requests, rec, connected, timers, connectCalls, connectPending, connectEmitted,
                   closeCalls, tickPending, disconnectEmitted, stack>>

\* the call starts the count of received messages afresh
timeout_resetsReceived(sid, expected) ==
    /\ CanCall
    /\ Len(timers) < budget.timers
    /\ LET sub == _findSubscribeBySid(sid) IN
        IF sub # 0
        THEN /\ timers' = Append(timers, [sid |-> sid, sub |-> sub, expected |-> expected,
                                          state |-> "pending", called |-> 0, arg |-> 0,
                                          receivedAtFire |-> 0, registeredAtFire |-> TRUE])
             /\ rec' = [rec EXCEPT ![sub].expected = expected,
                                   ![sub].timeout = Len(timers) + 1,
                                   ![sub].received = 0]
        ELSE UNCHANGED <<rec, timers>>
    /\ UNCHANGED <<unsubscribed, wiped, budget, requests, subs, connected, connectCalls, connectPending, connectEmitted,
                   closeCalls, tickPending, disconnectEmitted, stack>>

\* timeout(sid, timeout, expected, cb): the duration is abstracted, the timer
\* may fire at any later moment the event loop is idle
timeout(sid, expected) ==
    /\ CanCall
    /\ Len(timers) < budget.timers
    /\ LET sub == _findSubscribeBySid(sid) IN
        IF sub # 0
        THEN /\ timers' = Append(timers, [sid |-> sid, sub |-> sub, expected |-> expected,
                                          state |-> "pending", called |-> 0, arg |-> 0,
                                          receivedAtFire |-> 0, registeredAtFire |-> TRUE])
             /\ rec' = [rec EXCEPT ![sub].expected = expected,
                                   ![sub].timeout = Len(timers) + 1]
        ELSE UNCHANGED <<rec, timers>>
    /\ UNCHANGED <<unsubscribed, wiped, budget, requests, subs, connected, connectCalls, connectPending, connectEmitted,
                   closeCalls, tickPending, disconnectEmitted, stack>>

\* the setTimeout callback of timeout: cb(sid)
FireTimer(t) ==
    /\ stack = <<>>
    /\ tickPending = 0
    /\ timers[t].state = "pending"
    /\ timers' = [timers EXCEPT ![t].state = "fired",
                                ![t].called = @ + 1,
                                ![t].arg = timers[t].sid,
                                ![t].receivedAtFire = rec[timers[t].sub].received,
                                ![t].registeredAtFire = timers[t].sub \in Range(subs)]
    /\ UNCHANGED <<unsubscribed, wiped, budget, requests, rec, subs, connected, connectCalls, connectPending, connectEmitted,
                   closeCalls, tickPending, disconnectEmitted, stack>>

\* deliveries a publish in progress has still to make to object o
Outstanding(o) ==
    Cardinality({<<d, i>> \in (1..Len(stack)) \X (1..Len(rec)) :
                    /\ i <= Len(stack[d].subs)
                    /\ i >= stack[d].idx
                    /\ ~(i = stack[d].idx /\ stack[d].inHandler)
                    /\ ~stack[d].threw
                    /\ stack[d].subs[i] = o})

\* publish(subject, message, replyTo) up to the forEach: the selection is
\* made once.  A frame also keeps what held at the call, for reference: the
\* registry, the objects unsubscribed so far, whether the registry was wiped,
\* and the requestOne call that made it (0: none).  A replyTo of 0 stands
\* for undefined.
PublishFrame(subject, message, replyTo, request) ==
    [subject |-> subject, message |-> message, replyTo |-> replyTo,
     subs |-> _findSubscribesBySubject(subject), idx |-> 1,
     inHandler |-> FALSE, threw |-> FALSE, invoked |-> <<>>,
     registry |-> subs, gone |-> unsubscribed, afterWipe |-> wiped,
     request |-> request]

\* the calls the bounds of the run allow
CanPublish(subject) ==
    /\ CanCall
    /\ Len(stack) < MaxDepth
    /\ \A o \in Range(_findSubscribesBySubject(subject)) :
            rec[o].received + Outstanding(o) < budget.received

publish(subject) ==
    /\ CanPublish(subject)
    /\ stack' = Append(stack, PublishFrame(subject, Payload, 0, 0))
    /\ UNCHANGED <<unsubscribed, wiped, budget, requests, rec, subs, connected, timers, connectCalls, connectPending,
                   connectEmitted, closeCalls, tickPending, disconnectEmitted>>

\* the (message, options, callback) arguments a caller passes to requestOne
RequestArgs ==
    {<<Payload, NoArg, NoArg>>, <<Payload, Options(Undefined), Fn>>,
     <<Payload, Fn, NoArg>>, <<Fn, NoArg, NoArg>>}

\* the record of a requestOne call: its arguments, the id it generated, the
\* publish calls it made, the calls of its callback, and how it ended
Request(sid, subject, message, options, callback, published, outcome) ==
    [sid |-> sid, subject |-> subject, message |-> message, options |-> options,
     callback |-> callback, published |-> published, callbackCalls |-> 0,
     outcome |-> outcome, returned |-> 0]

\* the publish is made without a replyTo
requestOne_noReplyTo(subject, message, options, callback) ==
    /\ CanCall
    /\ Len(requests) < budget.requests
    /\ LET sid == uuidv4(Len(rec) + Len(requests) + 1) IN
        IF message.type = "function"
        THEN /\ requests' = Append(requests, Request(sid, subject, message, options,
                                                     callback, 0, "ReferenceError"))
             /\ UNCHANGED stack
        ELSE /\ CanPublish(subject)
             /\ stack' = Append(stack, PublishFrame(subject, message, 0,
                                                    Len(requests) + 1))
             /\ requests' = Append(requests, Request(sid, subject, message, options,
                                                     callback, 1, "running"))
    /\ UNCHANGED <<unsubscribed, wiped, budget, rec, subs, connected, timers, connectCalls,
                   connectPending, connectEmitted, closeCalls, tickPending,
                   disconnectEmitted>>

\* requestOne(subject, message, options, callback).  With a function as
\* message the assignment message = EMPTY reads an identifier that is
\* declared nowhere: a ReferenceError ends the call before publish.
\* Otherwise the call is this.publish(subject, message, sid), and sid is
\* returned when that publish returns.
requestOne(subject, message, options, callback) ==
    /\ CanCall
    /\ Len(requests) < budget.requests
    /\ LET sid == uuidv4(Len(rec) + Len(requests) + 1) IN
        IF message.type = "function"
        THEN /\ requests' = Append(requests, Request(sid, subject, message, options,
                                                     callback, 0, "ReferenceError"))
             /\ UNCHANGED stack
        ELSE /\ CanPublish(subject)
             /\ stack' = Append(stack, PublishFrame(subject, message, sid,
                                                    Len(requests) + 1))
             /\ requests' = Append(requests, Request(sid, subject, message, options,
                                                     callback, 1, "running"))
    /\ UNCHANGED <<unsubscribed, wiped, budget, rec, subs, connected, timers, connectCalls,
                   connectPending, connectEmitted, closeCalls, tickPending,
                   disconnectEmitted>>

\* clearTimeout(t): a timer that has not run yet never runs
clearTimeout(tm, t) ==
    [tm EXCEPT ![t].state = IF @ = "pending" THEN "cleared" ELSE @]

\* the timer is cancelled by any delivery
Cancels_always(sub, received) == rec[sub].timeout # 0

\* if (sub.timeout && sub.received >= sub.expected)
Cancels(sub, received) == rec[sub].timeout # 0 /\ received >= rec[sub].expected

\* a selected subscription that has left the registry is passed over
Deliver_skipsRemoved ==
    /\ stack # <<>>
    /\ LET f == stack[Len(stack)] IN
        /\ ~f.inHandler
        /\ f.idx <= Len(f.subs)
        /\ LET sub == f.subs[f.idx]
               received == rec[sub].received + 1
               cancel == Cancels(sub, received)
           IN IF sub \in Range(subs)
              THEN /\ rec' = [rec EXCEPT ![sub].received = received,
                                         ![sub].timeout = IF cancel THEN 0 ELSE @]
                   /\ timers' = IF cancel THEN clearTimeout(timers, rec[sub].timeout)
                                 ELSE timers
                   /\ stack' = [stack EXCEPT ![Len(stack)].inHandler = TRUE,
                                             ![Len(stack)].invoked = Append(@, sub)]
              ELSE /\ stack' = [stack EXCEPT ![Len(stack)].idx = @ + 1]
                   /\ UNCHANGED <<rec, timers>>
    /\ UNCHANGED <<unsubscribed, wiped, budget, requests, subs, connected, connectCalls, connectPending, connectEmitted,
                   closeCalls, tickPending, disconnectEmitted>>

\* one iteration of subs.forEach up to the call of sub.cb
Deliver ==
    /\ stack # <<>>
    /\ LET f == stack[Len(stack)] IN
        /\ ~f.inHandler
        /\ f.idx <= Len(f.subs)
        /\ LET sub == f.subs[f.idx]
               received == rec[sub].received + 1
               cancel == Cancels(sub, received)
           IN /\ rec' = [rec EXCEPT ![sub].received = received,
                                    ![sub].timeout = IF cancel THEN 0 ELSE @]
              /\ timers' = IF cancel THEN clearTimeout(timers, rec[sub].timeout) ELSE timers
              /\ stack' = [stack EXCEPT ![Len(stack)].inHandler = TRUE,
                                        ![Len(stack)].invoked = Append(@, sub)]
    /\ UNCHANGED <<unsubscribed, wiped, budget, requests, subs, connected, connectCalls, connectPending, connectEmitted,
                   closeCalls, tickPending, disconnectEmitted>>

\* the handler returns: forEach goes on to the next selected subscription
HandlerReturn ==
    /\ InHandler
    /\ stack' = [stack EXCEPT ![Len(stack)].inHandler = FALSE,
                              ![Len(stack)].idx = @ + 1]
    /\ UNCHANGED <<unsubscribed, wiped, budget, requests, rec, subs, connected, timers, connectCalls, connectPending,
                   connectEmitted, closeCalls, tickPending, disconnectEmitted>>

\* the handler throws: the error leaves sub.cb inside forEach
HandlerThrow ==
    /\ InHandler
    /\ stack' = [stack EXCEPT ![Len(stack)].threw = TRUE]
    /\ UNCHANGED <<unsubscribed, wiped, budget, requests, rec, subs, connected, timers, connectCalls, connectPending,
                   connectEmitted, closeCalls, tickPending, disconnectEmitted>>

\* how a requestOne call ends when the publish it made ends: it returns sid,
\* or the error of the publish passes through it
Ended(f, outcome) ==
    IF f.request = 0 THEN requests
    ELSE [requests EXCEPT ![f.request].outcome = outcome,
                          ![f.request].returned =
                               IF outcome = "returned" THEN requests[f.request].sid ELSE 0]

\* publish catches the error and goes on with the next subscription
PublishThrows_caught ==
    /\ stack # <<>>
    /\ stack[Len(stack)].threw
    /\ stack' = [stack EXCEPT ![Len(stack)].threw = FALSE,
                              ![Len(stack)].inHandler = FALSE,
                              ![Len(stack)].idx = @ + 1]
    /\ UNCHANGED <<unsubscribed, wiped, budget, requests, rec, subs, connected, timers,
                   connectCalls, connectPending, connectEmitted, closeCalls, tickPending,
                   disconnectEmitted>>

\* nothing in publish catches the error: forEach is abandoned and the error
\* reaches the caller of publish
PublishThrows ==
    /\ stack # <<>>
    /\ stack[Len(stack)].threw
    /\ stack' = SubSeq(stack, 1, Len(stack) - 1)
    /\ requests' = Ended(stack[Len(stack)], "threw")
    /\ UNCHANGED <<unsubscribed, wiped, budget, rec, subs, connected, timers, connectCalls,
                   connectPending, connectEmitted, closeCalls, tickPending,
                   disconnectEmitted>>

\* forEach is over: publish returns
PublishReturn ==
    /\ stack # <<>>
    /\ ~stack[Len(stack)].inHandler
    /\ stack[Len(stack)].idx > Len(stack[Len(stack)].subs)
    /\ stack' = SubSeq(stack, 1, Len(stack) - 1)
    /\ requests' = Ended(stack[Len(stack)], "returned")
    /\ UNCHANGED <<unsubscribed, wiped, budget, rec, subs, connected, timers, connectCalls, connectPending,
                   connectEmitted, closeCalls, tickPending, disconnectEmitted>>

Next ==
    \/ connect
    \/ EmitConnect
    \/ close
    \/ EmitDisconnect
    \/ \E subject \in Patterns, args \in SubscribeArgs : subscribe(subject, args[1], args[2])
    \/ \E sid \in SidArgs : unsubscribe(sid)
    \/ \E sid \in SidArgs, expected \in 1..MaxExpected : timeout(sid, expected)
    \/ \E t \in 1..Len(timers) : FireTimer(t)
    \/ \E subject \in Subjects : publish(subject)
    \/ Deliver
    \/ HandlerReturn
    \/ HandlerThrow
    \/ PublishThrows
    \/ PublishReturn
    \/ \E subject \in Subjects, args \in RequestArgs :
            requestOne(subject, args[1], args[2], args[3])

Spec == Init /\ [][Next]_vars

\* ---------------------------------------------------------------- fairness
\* The forEach of publish goes on by itself; a handler ends, by returning or
\* throwing; the event loop runs a due callback once the stack is empty.
TimerIds == UNION {1..b.timers : b \in Budgets}
ConnectIds == UNION {1..b.connects : b \in Budgets}
CloseIds == UNION {1..b.closes : b \in Budgets}

Fairness ==
    /\ WF_vars(Deliver)
    /\ WF_vars(PublishReturn)
    /\ WF_vars(PublishThrows)
    /\ SF_vars(HandlerReturn \/ HandlerThrow)
    /\ SF_vars(EmitConnect)
    /\ SF_vars(EmitDisconnect)
    /\ \A t \in TimerIds : SF_vars(t <= Len(timers) /\ FireTimer(t))

FairInit == Init /\ budget \in FairBudgets

FairSpec == FairInit /\ [][Next]_vars /\ Fairness

\* ---------------------------------------------------------------- frames
Frames == Range(stack)
\* forEach is over and publish is about to return
Complete(f) == ~f.inHandler /\ f.idx > Len(f.subs)
\* how many times a publish has invoked the handler of object o
Invocations(f, o) == Cardinality({i \in 1..Len(f.invoked) : f.invoked[i] = o})
\* the objects of the registry at the call whose pattern matches the subject
Matching(f) == {o \in Range(f.registry) : matchSubject(f.subject, rec[o].subject)}
Grouped(o) == rec[o].queue \notin {Undefined, ""}

\* C1: when a publish has gone through its selection, of the subscriptions
\* that were in the registry at the call and match the subject, exactly one
\* member of each queue group has been invoked, exactly once, every one
\* without a queue group has been invoked exactly once, and no other
\* subscription has been invoked.
OnePerGroupAllUngrouped ==
    \A f \in Frames : Complete(f) =>
        /\ \A o \in Matching(f) : ~Grouped(o) => Invocations(f, o) = 1
        /\ \A q \in {rec[o].queue : o \in {m \in Matching(f) : Grouped(m)}} :
              LET members == {o \in Matching(f) : rec[o].queue = q} IN
              /\ \E o \in members :
                    /\ Invocations(f, o) = 1
                    /\ \A other \in members \ {o} : Invocations(f, other) = 0
        /\ \A o \in 1..Len(rec) : o \notin Matching(f) => Invocations(f, o) = 0

\* a publish has completed on a registry with two matching members of one
\* group, a matching subscription without group, and it invoked two handlers
OnePerGroupWitness ==
    \E f \in Frames :
        /\ Complete(f)
        /\ Len(f.invoked) = 2
        /\ \E a, b, c \in Matching(f) :
              /\ a # b
              /\ Grouped(a)
              /\ rec[a].queue = rec[b].queue
              /\ ~Grouped(c)

\* ---------------------------------------------------------------- timeouts
Fired(t) == timers[t].state = "fired"

\* C2: the onTimeout callback of a timeout call is invoked only if the
\* subscription's received count is below the expected count of that call
\* at the moment the timer fires.
TimeoutOnlyBelowExpected ==
    \A t \in 1..Len(timers) :
        Fired(t) => timers[t].receivedAtFire < timers[t].expected

\* C3: the callback of a timeout call is invoked at most once, with the id
\* of the subscription; a timer is cancelled only when the received count has
\* reached the expected count of its call; and a timer whose subscription
\* does not reach that count eventually fires.
TimeoutFiresOnce ==
    /\ [](\A t \in 1..Len(timers) :
            /\ timers[t].called <= 1
            /\ timers[t].called = 1 <=> Fired(t)
            /\ Fired(t) => timers[t].arg = rec[timers[t].sub].sid
            /\ timers[t].state = "cleared" =>
                    rec[timers[t].sub].received >= timers[t].expected)
    /\ \A t \in TimerIds :
          (t <= Len(timers)) ~>
              /\ t <= Len(timers)
              /\ Fired(t) \/ rec[timers[t].sub].received >= timers[t].expected

\* a timer has fired while its subscription was short of the expected count,
\* after a delivery that did not cancel it
TimeoutFiresWitness ==
    \E t \in 1..Len(timers) :
        /\ Fired(t)
        /\ timers[t].expected = 2
        /\ timers[t].receivedAtFire = 1

\* ---------------------------------------------------------------- unsubscribe
\* C4: a publish called after unsubscribe removed a subscription does not
\* invoke its handler, and no step of such a publish changes its received
\* count; a removed subscription never returns to the registry.
UnsubscribedNeverDelivered ==
    /\ [](\A f \in Frames : Range(f.invoked) \cap f.gone = {})
    /\ [](unsubscribed \cap Range(subs) = {})
    /\ [][\A o \in unsubscribed :
            rec'[o].received # rec[o].received =>
                /\ stack # <<>>
                /\ o \notin stack[Len(stack)].gone
                /\ o \in Range(stack[Len(stack)].subs)]_vars

\* a publish on a subject the removed subscription matches has completed
\* after the unsubscribe, on a registry that still held another subscription
UnsubscribedWitness ==
    \E f \in Frames :
        /\ Complete(f)
        /\ f.invoked # <<>>
        /\ \E o \in f.gone : matchSubject(f.subject, rec[o].subject)

\* ---------------------------------------------------------------- close
\* C5: close leaves the registry empty and connected false, and a publish
\* called after close with no subscribe in between invokes no handler.
CloseWipes ==
    /\ [][closeCalls' > closeCalls => subs' = <<>> /\ connected' = JsFalse]_vars
    /\ [](\A f \in Frames : f.afterWipe => f.subs = <<>> /\ f.invoked = <<>>)

\* a publish called after close wiped a registry with a matching subscription
CloseWipesWitness ==
    \E f \in Frames :
        /\ f.afterWipe
        /\ Complete(f)
        /\ \E o \in 1..Len(rec) :
              o \notin unsubscribed /\ matchSubject(f.subject, rec[o].subject)

\* ---------------------------------------------------------------- order
\* position of object o in the registry a publish was called on
Position(f, o) == IndexOf(f.registry, o)

\* C6 as stated: a publish invokes the handlers in registry order.
InRegistryOrder ==
    \A f \in Frames : \A i, j \in 1..Len(f.invoked) :
        i < j => Position(f, f.invoked[i]) < Position(f, f.invoked[j])

\* the place a selected subscription takes in the order of delivery: a group
\* named like an array index comes first; any other group is placed where
\* its first matching member stands in the registry, a subscription without
\* group where it stands itself
Place(f, o) ==
    IF ~Grouped(o) THEN Position(f, o)
    ELSE IF ArrayIndex(rec[o].queue) >= 0 THEN 0
    ELSE LET members == {m \in Matching(f) : rec[m].queue = rec[o].queue}
         IN Position(f, CHOOSE m \in members :
                            \A n \in members : Position(f, m) <= Position(f, n))

\* C6 amended: the handlers are invoked one after another, each to completion
\* before the next and all before publish returns, in the order of Place; that
\* is registry order when no matching group has a second matching member or
\* a name like an array index.
InKeyOrder ==
    /\ [](\A f \in Frames :
            /\ \A i, j \in 1..Len(f.invoked) :
                  i < j => Place(f, f.invoked[i]) < Place(f, f.invoked[j])
            /\ Len(f.invoked) = IF f.inHandler THEN f.idx ELSE f.idx - 1
            /\ (\A o \in Matching(f) :
                    Grouped(o) => /\ ArrayIndex(rec[o].queue) < 0
                                  /\ \A m \in Matching(f) \ {o} : rec[m].queue # rec[o].queue)
                => \A i, j \in 1..Len(f.invoked) :
                      i < j => Position(f, f.invoked[i]) < Position(f, f.invoked[j]))
    /\ [][\A d \in 1..Len(stack) :
            /\ (d <= Len(stack') /\ stack'[d].invoked # stack[d].invoked) =>
                    /\ d = Len(stack)
                    /\ ~stack[d].inHandler
                    /\ stack'[d].inHandler
            /\ (d > Len(stack') /\ ~stack[d].inHandler) =>
                    Len(stack[d].invoked) = Len(stack[d].subs)]_vars

\* a publish has completed that invoked the last member of a group before a
\* subscription without group that stands before it in the registry
InKeyOrderWitness ==
    \E f \in Frames :
        /\ Complete(f)
        /\ Len(f.invoked) = 2
        /\ Position(f, f.invoked[1]) > Position(f, f.invoked[2])
        /\ ArrayIndex(rec[f.invoked[1]].queue) < 0

\* ---------------------------------------------------------------- connection
\* C7 as stated: connected is not yet true when connect returns.
ConnectedNotYetTrue ==
    [][connectCalls' > connectCalls => connected' # JsTrue]_vars

\* C7 amended: connected is not true before the first connect call, and
\* connect sets it to true itself: it is true when connect returns, before the
\* connect event of that call is emitted.
ConnectedSetByConnect ==
    /\ [](connectCalls = 0 => connected # JsTrue)
    /\ [][connectCalls' > connectCalls =>
            /\ connected' = JsTrue
            /\ connectEmitted' = connectEmitted]_vars

\* connect has returned, connected is true and no connect event was emitted
ConnectedSetWitness ==
    /\ connected = JsTrue
    /\ connectCalls = 1
    /\ connectEmitted = 0

\* C8: every call of connect is followed by exactly one emission of the
\* connect event, which does not happen within the call.
ConnectEmitsOnce ==
    /\ [](connectEmitted + connectPending = connectCalls)
    /\ [][/\ connectCalls' > connectCalls => connectEmitted' = connectEmitted
          /\ connectEmitted' # connectEmitted =>
                /\ connectEmitted' = connectEmitted + 1
                /\ stack = <<>>]_vars
    /\ \A n \in ConnectIds : (connectCalls >= n) ~> (connectEmitted >= n)

\* two calls of connect have each had their connect event
ConnectEmitsWitness == connectCalls = 2 /\ connectEmitted = 2

\* C9: every call of close is followed by exactly one emission of the
\* disconnect event, after close has returned; the registry is empty and
\* connected is false when close returns.
CloseEmitsOnce ==
    /\ [](disconnectEmitted + tickPending = closeCalls)
    /\ [][/\ closeCalls' > closeCalls =>
                /\ disconnectEmitted' = disconnectEmitted
                /\ tickPending' = tickPending + 1
                /\ subs' = <<>>
                /\ connected' = JsFalse
          /\ disconnectEmitted' # disconnectEmitted =>
                /\ disconnectEmitted' = disconnectEmitted + 1
                /\ closeCalls' = closeCalls
                /\ stack = <<>>]_vars
    /\ \A n \in CloseIds : (closeCalls >= n) ~> (disconnectEmitted >= n)

\* close wiped a registry holding a subscription that had received a message,
\* and its disconnect event has been emitted since
CloseEmitsWitness ==
    /\ disconnectEmitted = 1
    /\ closeCalls = 1
    /\ \E o \in 1..Len(rec) : rec[o].received > 0 /\ o \notin Range(subs)

\* ---------------------------------------------------------------- subscribe
\* C10: subscribe, in either argument form, appends one record with received
\* count 0 and the handler passed, changes no other record, and gives an id
\* no record has had; no two records of the registry share an id.
SubscribeAppendsUnique ==
    /\ [](\A i, j \in 1..Len(subs) : i # j => rec[subs[i]].sid # rec[subs[j]].sid)
    /\ [][Len(rec') > Len(rec) =>
            /\ Len(rec') = Len(rec) + 1
            /\ subs' = Append(subs, Len(rec'))
            /\ rec'[Len(rec')].received = 0
            /\ rec'[Len(rec')].cb.type = "function"
            /\ \A o \in 1..Len(rec) :
                  rec'[o] = rec[o] /\ rec[o].sid # rec'[Len(rec')].sid]_vars

\* a subscribe made after an unsubscribe, next to an older subscription
SubscribeWitness ==
    /\ Len(subs) = 2
    /\ Len(rec) = 3
    /\ unsubscribed # {}
    /\ subs[2] = 3

\* ---------------------------------------------------------------- unknown ids
\* an id some subscription of the registry holds
Known(sid) == \E o \in Range(subs) : rec[o].sid = sid

\* C11: unsubscribe and timeout called with an id that no subscription of
\* the registry holds (never issued, already unsubscribed, or wiped by
\* close) change nothing: the registry, every subscription record and every
\* timer stay as they were, and no timer is made that could call onTimeout.
UnknownIdNoEffect ==
    [][\A sid \in SidArgs :
          ~Known(sid) =>
              /\ unsubscribe(sid) => UNCHANGED vars
              /\ \A expected \in 1..MaxExpected :
                    timeout(sid, expected) => UNCHANGED vars]_vars

\* a caller can pass the id of a subscription that has left the registry,
\* and an id never issued, while a timer is pending and both calls are
\* possible
UnknownIdWitness ==
    /\ CanCall
    /\ Len(timers) < budget.timers
    /\ \E o \in 1..Len(rec) : o \notin Range(subs) /\ ~Known(rec[o].sid)
    /\ \E sid \in SidArgs : sid > Len(rec) + Len(requests) /\ ~Known(sid)
    /\ \E t \in 1..Len(timers) : timers[t].state = "pending"

\* ---------------------------------------------------------------- requestOne
\* the requestOne calls made with a message (not a function in its place)
WithMessage == {r \in 1..Len(requests) : requests[r].message.type # "function"}
\* the publish calls in progress that requestOne call r made
PublishesOf(r) == {d \in 1..Len(stack) : stack[d].request = r}

\* C12: a requestOne call with a message makes one publish, of that message
\* on that subject, whose replyTo is the id the call generated; the id
\* differs from every id issued before; the call leaves the registry and
\* the subscription records as they are, returns the id when the publish
\* returns, and never invokes its callback.
RequestPublishesOnce ==
    /\ [](\A r \in WithMessage :
            /\ requests[r].published = 1
            /\ requests[r].callbackCalls = 0
            /\ \A q \in 1..(r - 1) : requests[q].sid # requests[r].sid
            /\ \A o \in 1..Len(rec) : rec[o].sid # requests[r].sid
            /\ requests[r].outcome = "returned" => requests[r].returned = requests[r].sid
            /\ requests[r].outcome \in {"returned", "threw"} => PublishesOf(r) = {}
            /\ requests[r].outcome = "running" =>
                  /\ Cardinality(PublishesOf(r)) = 1
                  /\ \A d \in PublishesOf(r) :
                        /\ stack[d].subject = requests[r].subject
                        /\ stack[d].message = requests[r].message
                        /\ stack[d].replyTo = requests[r].sid)
    /\ [][Len(requests') > Len(requests) =>
            /\ subs' = subs
            /\ rec' = rec
            /\ requests'[Len(requests')].message.type # "function" =>
                  /\ Len(stack') = Len(stack) + 1
                  /\ stack'[Len(stack')].request = Len(requests')
                  /\ stack'[Len(stack')].subs = _findSubscribesBySubject(
                                                    requests'[Len(requests')].subject)]_vars

\* two requestOne calls have returned their ids, after the publish of the
\* second invoked a handler
RequestWitness ==
    /\ Len(requests) = 2
    /\ \A r \in 1..2 : requests[r].outcome = "returned" /\ requests[r].returned # 0
    /\ subs # <<>>
    /\ rec[subs[1]].received = 1
    /\ rec[subs[1]].sid < requests[2].sid

\* C13: a requestOne call with a function in the place of the message, or in
\* the place of the options, ends without an error of its own: it makes its
\* one publish, of the empty payload when the message was the function, and
\* returns the id it generated.
RequestShiftsCallback ==
    \A r \in 1..Len(requests) :
        "function" \in {requests[r].message.type, requests[r].options.type} =>
            /\ requests[r].outcome # "ReferenceError"
            /\ requests[r].published = 1
            /\ requests[r].outcome = "returned" => requests[r].returned = requests[r].sid

\* ---------------------------------------------------------------- handler errors
\* C14: when a handler throws, the error leaves publish at once: the publish
\* is the innermost call, it has invoked the subscriptions up to the failing
\* one, each once, and none after it; its next step ends it, with every
\* received count (the failing subscription's included), the registry and
\* the timers as they are, and hands the error to its caller: the handler
\* that called it, or the requestOne call that made it.
HandlerErrorPropagates ==
    /\ [](\A d \in 1..Len(stack) : stack[d].threw =>
            /\ d = Len(stack)
            /\ stack[d].inHandler
            /\ stack[d].invoked = SubSeq(stack[d].subs, 1, stack[d].idx)
            /\ rec[stack[d].subs[stack[d].idx]].received >= 1
            /\ d > 1 => stack[d - 1].inHandler /\ ~stack[d - 1].threw)
    /\ [][\A d \in 1..Len(stack) :
            /\ (d <= Len(stack') /\ stack'[d].threw /\ ~stack[d].threw) =>
                    /\ rec' = rec
                    /\ stack'[d].invoked = stack[d].invoked
            /\ stack[d].threw =>
                    /\ stack' = SubSeq(stack, 1, d - 1)
                    /\ rec' = rec
                    /\ subs' = subs
                    /\ timers' = timers
                    /\ stack[d].request # 0 =>
                          /\ requests'[stack[d].request].outcome = "threw"
                          /\ requests'[stack[d].request].returned = 0]_vars

\* the handler of the second of three selected subscriptions has thrown
HandlerErrorWitness ==
    \E f \in Frames :
        /\ f.threw
        /\ f.idx = 2
        /\ Len(f.subs) = 3
        /\ rec[f.subs[2]].received = 1
        /\ rec[f.subs[3]].received = 0

\* ---------------------------------------------------------------- matching
\* Matching is explored with one subscription and one publish at a time,
\* over every pattern and subject of bounded length.
Words == {"a", "b", "c", "d"}
Tokens == {"a", "c", "*", ">"}
MatchSubjects == UNION {[1..n -> Words] : n \in 1..(MatchSegments + 1)}
MatchPatterns == UNION {[1..n -> Tokens] : n \in 1..MatchSegments}

MatchInit == Init /\ budget = EchoBudget

MatchNext ==
    \/ \E pattern \in MatchPatterns : subscribe(pattern, Fn, NoArg)
    \/ \E subject \in MatchSubjects : stack = <<>> /\ publish(subject)
    \/ Deliver
    \/ HandlerReturn
    \/ PublishReturn

MatchSpec == MatchInit /\ [][MatchNext]_vars

\* the rule of matching, position by position
SegmentsMatch(subject, pattern) ==
    LET n == Len(pattern)
        Same(i) == pattern[i] \in {"*", subject[i]}
    IN IF pattern[n] = ">"
       THEN Len(subject) >= n /\ \A i \in 1..(n - 1) : Same(i)
       ELSE Len(subject) = n /\ \A i \in 1..n : Same(i)

\* C15: a publish selects a subscription of the registry if and only if
\* every literal segment of its pattern equals the segment of the subject at
\* the same position, every "*" stands for one segment, a final ">" stands
\* for one or more trailing segments, and the numbers of segments are equal
\* unless the pattern ends in ">".
MatchesBySegments ==
    /\ \A f \in Frames : \A o \in Range(f.registry) :
            o \in Range(f.subs) <=> SegmentsMatch(f.subject, rec[o].subject)
    /\ matchSubject(<<"a", "b">>, <<"a", ">">>)
    /\ matchSubject(<<"a", "b", "c">>, <<"a", ">">>)
    /\ ~matchSubject(<<"a">>, <<"a", ">">>)
    /\ matchSubject(<<"a", "b", "c">>, <<"a", "*", "c">>)
    /\ ~matchSubject(<<"a", "b", "d", "c">>, <<"a", "*", "c">>)
    /\ ~matchSubject(<<"a", "c">>, <<"a", "*", "c">>)

\* a publish on a.b.d.c has invoked a subscription to a.>, and would not
\* have with the pattern a.*.c
MatchesWitness ==
    \E f \in Frames :
        /\ Complete(f)
        /\ f.subject = <<"a", "b", "d", "c">>
        /\ Len(f.invoked) = 1
        /\ rec[f.invoked[1]].subject = <<"a", ">">>
        /\ rec[f.invoked[1]].received = 1

\* ---------------------------------------------------------------- received count
\* this step is the innermost publish invoking the handler of object o
Invokes(o) ==
    /\ stack # <<>>
    /\ Len(stack') = Len(stack)
    /\ ~stack[Len(stack)].inHandler
    /\ stack'[Len(stack)].inHandler
    /\ stack'[Len(stack)].invoked = Append(stack[Len(stack)].invoked, o)

\* C16: a new subscription starts with a received count of 0; in every
\* step the received count of a subscription stays as it is or grows by 1,
\* and it grows by 1 exactly in the steps in which a publish invokes the
\* handler of that subscription, so that the handler finds the count
\* already incremented; no other operation changes it.
ReceivedCountsInvocations ==
    [][/\ Len(rec') >= Len(rec)
       /\ \A o \in 1..Len(rec') :
            IF o > Len(rec) THEN rec'[o].received = 0
            ELSE /\ rec'[o].received \in {rec[o].received, rec[o].received + 1}
                 /\ rec'[o].received = rec[o].received + 1 <=> Invokes(o)]_vars

\* a handler is running for the second message of its subscription, invoked
\* by a publish made from the handler of the first
ReceivedCountWitness ==
    /\ Len(stack) = 2
    /\ stack[1].inHandler
    /\ stack[2].inHandler
    /\ stack[2].subs[stack[2].idx] = stack[1].subs[stack[1].idx]
    /\ rec[stack[2].subs[stack[2].idx]].received = 2

\* ---------------------------------------------------------------- stale timeouts
\* Timeouts of subscriptions that leave the registry are explored with two
\* subscriptions without queue group, one timeout and one close.
StaleInit == Init /\ budget = MixedBudget

StaleNext ==
    \/ close
    \/ EmitDisconnect
    \/ \E subject \in Patterns : subscribe(subject, Fn, NoArg)
    \/ \E sid \in SidArgs : unsubscribe(sid)
    \/ \E sid \in SidArgs, expected \in 1..MaxExpected : timeout(sid, expected)
    \/ \E t \in 1..Len(timers) : FireTimer(t)
    \/ \E subject \in Subjects : publish(subject)
    \/ Deliver
    \/ HandlerReturn
    \/ HandlerThrow
    \/ PublishThrows
    \/ PublishReturn

StaleSpec == StaleInit /\ [][StaleNext]_vars /\ Fairness

\* timer t is pending and its subscription is not in the registry
Stale(t) == timers[t].state = "pending" /\ timers[t].sub \notin Range(subs)

\* C17, as stated: once its subscription has left the registry, by close
\* or unsubscribe, a pending timer is never cancelled.
StaleTimeoutNeverCancelled ==
    [][\A t \in 1..Len(timers) :
          Stale(t) => timers'[t].state # "cleared"]_vars

\* C17, amended: close and unsubscribe cancel no timer; a pending timer
\* whose subscription has left the registry, and to which no publish in
\* progress has still to deliver, is never cancelled and eventually fires,
\* calling onTimeout with the id of the subscription.
StaleTimeoutFires ==
    /\ [][\A t \in 1..Len(timers) :
            /\ timers[t].state = "pending"
            /\ timers[t].sub \notin Range(subs')
            /\ Outstanding(timers[t].sub) = 0
            => /\ timers'[t].state # "cleared"
               /\ Outstanding(timers[t].sub)' = 0]_vars
    /\ \A t \in TimerIds :
          (t <= Len(timers) /\ Stale(t) /\ Outstanding(timers[t].sub) = 0) ~>
              /\ t <= Len(timers)
              /\ Fired(t)
              /\ timers[t].arg = rec[timers[t].sub].sid
              /\ ~timers[t].registeredAtFire

\* a timer has fired for a subscription that close had wiped from the
\* registry while the timer was pending
StaleTimeoutWitness ==
    \E t \in 1..Len(timers) :
        /\ Fired(t)
        /\ ~timers[t].registeredAtFire
        /\ closeCalls = 1
        /\ timers[t].sub \notin unsubscribed

\* ---------------------------------------------------------------- events and state
\* C18: whenever "connect" is emitted the connected flag is true, and
\* whenever "disconnect" is emitted the connected flag is false.
EventsShowState ==
    [][/\ connectEmitted' > connectEmitted => connected = JsTrue /\ connected' = JsTrue
       /\ disconnectEmitted' > disconnectEmitted =>
             connected = JsFalse /\ connected' = JsFalse]_vars

\* ---------------------------------------------------------------- selection
\* the selection a publish makes, told from the registry at its call: of the
\* subscriptions that match, those without a queue group and, of each
\* queue group, the member that comes last in the registry
SelectedAtCall(f) ==
    {o \in Matching(f) :
        Grouped(o) =>
            \A p \in Matching(f) :
                rec[p].queue = rec[o].queue => Position(f, p) <= Position(f, o)}

\* C19: the subscriptions a publish invokes are those selected from the
\* registry as it was at the call, whatever the handlers do meanwhile: the
\* selection of a publish in progress never changes, a publish below a
\* nested one stands still until the nested one has ended, and a publish
\* that has gone through its selection has invoked exactly the selected
\* subscriptions, each once.
SelectionFixedAtCall ==
    /\ [](\A f \in Frames :
            /\ Range(f.subs) = SelectedAtCall(f)
            /\ f.invoked = SubSeq(f.subs, 1, Len(f.invoked))
            /\ Complete(f) => f.invoked = f.subs)
    /\ [][\A d \in 1..Len(stack) :
            d <= Len(stack') =>
                /\ stack'[d].subs = stack[d].subs
                /\ stack'[d].registry = stack[d].registry
                /\ d < Len(stack) => stack'[d] = stack[d]]_vars

\* a publish has invoked its two selected subscriptions although, while it
\* ran, the second was unsubscribed and a new matching subscription, which
\* it has not invoked, was subscribed
SelectionFixedWitness ==
    \E f \in Frames :
        /\ Complete(f)
        /\ Len(f.invoked) = 2
        /\ f.invoked[2] \in unsubscribed \ f.gone
        /\ \E o \in Range(subs) \ Range(f.registry) :
              /\ matchSubject(f.subject, rec[o].subject)
              /\ o \notin Range(f.invoked)

\* ---------------------------------------------------------------- queue groups
\* Queue groups are explored with three subscriptions whose queue option is
\* a name, the empty string or absent.
QueueArgs == {Options(q) : q \in {"q", "", Undefined}}

QueueInit == Init /\ budget = DeliveryBudget

QueueNext ==
    \/ \E subject \in Patterns, opts \in QueueArgs : subscribe(subject, opts, Fn)
    \/ \E sid \in SidArgs : unsubscribe(sid)
    \/ \E subject \in Subjects : publish(subject)
    \/ Deliver
    \/ HandlerReturn
    \/ PublishReturn

QueueSpec == QueueInit /\ [][QueueNext]_vars

\* C20: when a publish has gone through its selection, every subscription
\* of the registry at the call that matches and whose queue is absent or
\* the empty string has been invoked once; and of two matching
\* subscriptions with the same queue-group name, whatever their patterns,
\* the one subscribed earlier has not been invoked, so that of each group
\* only the member subscribed last has been, once.
GroupKeyedByName ==
    \A f \in Frames : Complete(f) =>
        /\ \A o \in Matching(f) :
              rec[o].queue \in {Undefined, ""} => Invocations(f, o) = 1
        /\ \A o, p \in Matching(f) :
              /\ rec[o].queue \notin {Undefined, ""}
              /\ rec[o].queue = rec[p].queue
              /\ o < p
              => Invocations(f, o) = 0
        /\ \A o \in Matching(f) :
              /\ rec[o].queue \notin {Undefined, ""}
              /\ \A p \in Matching(f) : rec[p].queue = rec[o].queue => p <= o
              => Invocations(f, o) = 1

\* a publish has invoked, of two subscriptions with the same group name and
\* different patterns, only the one subscribed last, and a subscription
\* whose queue is the empty string
GroupKeyedWitness ==
    \E f \in Frames :
        /\ Complete(f)
        /\ \E o, p, e \in Matching(f) :
              /\ o < p
              /\ rec[o].queue = "q"
              /\ rec[p].queue = "q"
              /\ rec[o].subject # rec[p].subject
              /\ rec[e].queue = ""
              /\ Range(f.invoked) = {p, e}
====
